---- MODULE Spec2Model ----
(***************************************************************************)
(* Model of StorableSceneStateTranslation.ts: the forward translator       *)
(* (toBuilderFromStateDefinitionFormat), the reverse translator            *)
(* (fromBuildertoStateDefinitionFormat) and the storable snapshot codec.   *)
(*                                                                         *)
(* JavaScript objects used as tables (Record<string, T>) are modelled as   *)
(* sequences of [key, value] pairs with distinct keys, in insertion order, *)
(* which is the order Object.keys/values/entries iterate string keys in.   *)
(* Component payloads (data: any) are TLA+ records; hasOwnProperty(f) is   *)
(* f \in DOMAIN data.                                                      *)
(***************************************************************************)
EXTENDS Integers, Sequences, FiniteSets, TLC

VARIABLES
  pc,                   \* position of toBuilderFromStateDefinitionFormat
  scene,                \* scene.getState(): entities in order, components in order
  builderManifest,      \* the caller's manifest object (mutated in place)
  entities,             \* local: entities
  builderComponents,    \* local: builderComponents
  gltfNames,            \* local: gltfNames
  nftCount,             \* local: nftCount
  ei,                   \* index of the entity the outer loop is at
  ci,                   \* index of the component the inner loop is at
  entityName,           \* local: entityName of the entity in progress
  builderComponentsIds, \* local: builderComponentsIds of the entity in progress
  uuidCount,            \* number of ids uuid() has minted
  calls,                \* builderApiManager.getAssets calls made: [ids, ok]
  returned,             \* what the caller receives
  nameRule,             \* history: the rule that last assigned entityName
  nameRules,            \* history: nameRule of every entity recorded in gltfNames
  rpc,                  \* position of fromBuildertoStateDefinitionFormat
  rscene,               \* its BuilderScene argument (component data mutated in place)
  rei,                  \* index of the manifest entity its loop is at
  sceneState,           \* the SceneStateDefinition it builds
  cpc,                  \* position of the snapshot codec round
  serialized,           \* SerializedSceneState handed to the codec
  storable,             \* result of fromSerializedStateToStorableFormat
  deserialized          \* result of fromStorableFormatToSerializedState

fwdVars == <<pc, scene, builderManifest, entities, builderComponents, gltfNames,
             nftCount, ei, ci, entityName, builderComponentsIds, uuidCount,
             calls, returned, nameRule, nameRules>>
revVars == <<rpc, rscene, rei, sceneState>>
codecVars == <<cpc, serialized, storable, deserialized>>
vars == <<fwdVars, revVars, codecVars>>

(***************************************************************************)
(* Bounds of the model.                                                    *)
(***************************************************************************)
MaxEntities == 3

\* a string that is no name and no id (undefined)
None == "none"

\* an object that is not there (undefined or null)
Absent == [absent |-> TRUE]

(***************************************************************************)
(* Generic helpers for ordered tables.                                     *)
(***************************************************************************)
Range(s) == {s[i] : i \in 1..Len(s)}

Keys(obj) == {obj[i].key : i \in 1..Len(obj)}

Values(obj) == [i \in 1..Len(obj) |-> obj[i].value]

Get(obj, k) == (CHOOSE i \in 1..Len(obj) : obj[i].key = k)

\* obj[k] = v on a JavaScript object: replace in place or append
ObjSet(obj, k, v) ==
  IF k \in Keys(obj)
    THEN [i \in 1..Len(obj) |-> IF obj[i].key = k THEN [key |-> k, value |-> v] ELSE obj[i]]
    ELSE Append(obj, [key |-> k, value |-> v])

RECURSIVE SeqsUpTo(_, _)
SeqsUpTo(S, n) ==
  IF n = 0 THEN {<<>>}
  ELSE LET shorter == SeqsUpTo(S, n - 1)
       IN shorter \cup {Append(s, x) : s \in {t \in shorter : Len(t) = n - 1}, x \in S}

RECURSIVE SubSeqs(_)
SubSeqs(s) ==
  IF s = <<>> THEN {<<>>}
  ELSE LET rest == SubSeqs(Tail(s))
       IN rest \cup {<<Head(s)>> \o r : r \in rest}

(***************************************************************************)
(* Collaborators the translation imports.                                  *)
(***************************************************************************)
\* CLASS_ID of @dcl/legacy-ecs, restricted to the kinds the translation names
CLASS_ID == [TRANSFORM |-> 1, NFT_SHAPE |-> 22, GLTF_SHAPE |-> 54, NAME |-> 200]

\* the Type-Code Bridge table of ./utils: human-readable name <-> type code
HUMAN_READABLE_TO_ID ==
  { <<"Transform", CLASS_ID.TRANSFORM>>, <<"NFTShape", CLASS_ID.NFT_SHAPE>>,
    <<"GLTFShape", CLASS_ID.GLTF_SHAPE>>, <<"Name", CLASS_ID.NAME>> }

toHumanReadableType(type) == (CHOOSE p \in HUMAN_READABLE_TO_ID : p[2] = type)[1]

fromHumanReadableType(type) == (CHOOSE p \in HUMAN_READABLE_TO_ID : p[1] = type)[2]

\* uuid() of atomicHelpers/math: the n-th id minted
uuid(n) == "u" \o ToString(n)

\* the Asset Catalog behind builderApiManager.getAssets
AssetIds == <<"a1", "a2", "a3">>

Catalog ==
  [a \in Range(AssetIds) |->
     CASE a = "a1" -> [name |-> "Tree", category |-> "decorations"]
       [] a = "a2" -> [name |-> "Tree", category |-> "ground"]
       [] a = "a3" -> [name |-> "E1", category |-> "ground"]]

RECURSIVE Dedup(_)
Dedup(s) ==
  IF s = <<>> THEN <<>>
  ELSE LET front == Dedup(SubSeq(s, 1, Len(s) - 1))
       IN IF s[Len(s)] \in Range(front) THEN front ELSE Append(front, s[Len(s)])

\* every answer getAssets(ids) may give: an entry per requested id, or the id omitted
getAssets(ids) ==
  { [i \in 1..Len(kept) |-> [key |-> kept[i], value |-> Catalog[kept[i]]]] :
      kept \in SubSeqs(Dedup(ids)) }

\* camelize of ./utils on the catalog's asset names
camelize(name) ==
  CASE name = "Tree" -> "tree"
    [] name = "E1" -> "e1"
    [] OTHER -> name

\* getUniqueNameForGLTF of ./utils: the name, or the name with the lowest
\* numeric suffix (2, 3, ...) that no entry of currentNames carries
RECURSIVE getUniqueNameForGLTF(_, _, _)
getUniqueNameForGLTF(currentNames, gltfName, amountOfTimesAppear) ==
  LET nameToReturn == IF amountOfTimesAppear > 1
                        THEN gltfName \o ToString(amountOfTimesAppear)
                        ELSE gltfName
  IN IF nameToReturn \in Range(currentNames)
       THEN getUniqueNameForGLTF(currentNames, gltfName, amountOfTimesAppear + 1)
       ELSE nameToReturn

\* data.f = v on a payload
SetField(data, f, v) == (f :> v) @@ data

\* SceneTransformTranslator: only Transform payloads change shape
transformBuilderComponent(component) ==
  IF component.type = "Transform"
    THEN [component EXCEPT !.data = SetField(component.data, "form", "builder")]
    ELSE component

transformStateDefinitionComponent(component) ==
  IF component.componentId = CLASS_ID.TRANSFORM
    THEN [component EXCEPT !.data = SetField(component.data, "form", "internal")]
    ELSE component

(***************************************************************************)
(* toBuilderFromStateDefinitionFormat: the steps of its body.              *)
(***************************************************************************)
\* lines 64-70: the name an entity gets when its NFTShape is processed
NFTEntityName(count) ==
  IF count >= 1 THEN "nft" \o ToString(count + 1) ELSE "nft"

\* lines 64-70: nftCount after an NFTShape is processed
NFTCountAfter(count) ==
  IF count >= 1 THEN count ELSE count + 1

\* lines 77-79: every value of the lookup's answer overwrites entityName
RECURSIVE GLTFEntityName(_, _, _)
GLTFEntityName(names, current, assetValues) ==
  IF assetValues = <<>> THEN current
  ELSE GLTFEntityName(names,
                      getUniqueNameForGLTF(names, camelize(Head(assetValues).name), 1),
                      Tail(assetValues))

\* lines 92-96: builderValue of the entity's Name component
SetBuilderValue(components, name) ==
  [i \in 1..Len(components) |->
     IF components[i].componentId = fromHumanReadableType("Name")
       THEN [components[i] EXCEPT !.data = SetField(components[i].data, "builderValue", name)]
       ELSE components[i]]

\* lines 92-96 as seen through the manifest: transformBuilderComponent hands a
\* payload that is no Transform on as the same object, so the builder component
\* minted for the entity's Name component carries the builderValue too
SetBuilderValueInTable(comps, ids, name) ==
  [i \in 1..Len(comps) |->
     IF comps[i].key \in Range(ids) /\ comps[i].value.type = "Name"
       THEN [comps[i] EXCEPT !.value.data = SetField(@, "builderValue", name)]
       ELSE comps[i]]

\* mutant of RecordName: the name is not recorded
RecordName_Dropped(names, name) == names

\* line 98
RecordName(names, name) == Append(names, name)

\* lines 101-106
NewBuilderEntity(entityId, componentIds, name) ==
  [id |-> entityId, components |-> componentIds, disableGizmos |-> FALSE, name |-> name]

\* mutant of StoreComponent: the component is stored under its type
StoreComponent_ByType(components, builderComponent) ==
  ObjSet(components, builderComponent.type, builderComponent)

\* line 88
StoreComponent(components, builderComponent) ==
  ObjSet(components, builderComponent.id, builderComponent)

\* lines 111-121
BuildScene(manifest, ents, comps) ==
  [manifest EXCEPT !.scene =
     [id |-> manifest.scene.id,
      entities |-> ents,
      components |-> comps,
      assets |-> manifest.scene.assets,
      metrics |-> manifest.scene.metrics,
      limits |-> manifest.scene.limits,
      ground |-> manifest.scene.ground]]

IsGLTF(component) == component.type = "GLTFShape"

HasAssetId(component, assetId) ==
  "assetId" \in DOMAIN component.data /\ component.data.assetId = assetId

\* lines 124-137: asset ids of GLTFShape components the asset table lacks
RECURSIVE IdArray(_, _)
IdArray(comps, assets) ==
  IF comps = <<>> THEN <<>>
  ELSE LET component == Head(comps).value
           rest == IdArray(Tail(comps), assets)
       IN IF IsGLTF(component) /\ component.data.assetId \notin Keys(assets)
            THEN <<component.data.assetId>> \o rest
            ELSE rest

\* lines 141-143
RECURSIVE MergeAssets(_, _)
MergeAssets(assets, newAssets) ==
  IF newAssets = <<>> THEN assets
  ELSE MergeAssets(ObjSet(assets, Head(newAssets).key, Head(newAssets).value),
                   Tail(newAssets))

\* lines 148-153
AssetIsUsed(key, comps) ==
  \E i \in 1..Len(comps) : IsGLTF(comps[i].value) /\ comps[i].value.data.assetId = key

\* lines 146-160
RemoveUnused(assets, comps) ==
  SelectSeq(assets, LAMBDA entry : AssetIsUsed(entry.key, comps))

\* lines 168-173: the last component whose data.assetId is the asset's id
RECURSIVE GroundComponent(_, _, _)
GroundComponent(comps, assetId, current) ==
  IF comps = <<>> THEN current
  ELSE GroundComponent(Tail(comps), assetId,
                       IF HasAssetId(Head(comps).value, assetId)
                         THEN Head(comps).key ELSE current)

\* lines 164-175: [ground, groundComponentId] after the scan of the asset table
RECURSIVE FindGround(_, _, _, _)
FindGround(assets, comps, ground, groundComponentId) ==
  IF assets = <<>> THEN [ground |-> ground, groundComponentId |-> groundComponentId]
  ELSE IF Head(assets).value.category = "ground"
    THEN LET found == GroundComponent(comps, Head(assets).key, None)
         IN FindGround(Tail(assets), comps,
                       [assetId |-> Head(assets).key,
                        componentId |-> IF found = None THEN ground.componentId ELSE found],
                       IF found = None THEN groundComponentId ELSE found)
    ELSE FindGround(Tail(assets), comps, ground, groundComponentId)

\* line 167 on a manifest without ground: assignment to a field of undefined
GroundThrows(assets, ground) ==
  ground = Absent /\ \E i \in 1..Len(assets) : assets[i].value.category = "ground"

\* mutant of DisableGizmos: a ground component disables the gizmos of every entity
DisableGizmos_AllEntities(ents, groundComponentId) ==
  [i \in 1..Len(ents) |->
     [ents[i] EXCEPT !.value.disableGizmos =
        IF groundComponentId # None THEN TRUE ELSE ents[i].value.disableGizmos]]

\* lines 178-184
DisableGizmos(ents, groundComponentId) ==
  [i \in 1..Len(ents) |->
     [ents[i] EXCEPT !.value.disableGizmos =
        IF groundComponentId \in Range(ents[i].value.components)
          THEN TRUE ELSE ents[i].value.disableGizmos]]

(***************************************************************************)
(* Inputs of toBuilderFromStateDefinitionFormat.                           *)
(***************************************************************************)
TransformComponent == [componentId |-> CLASS_ID.TRANSFORM, data |-> [form |-> "internal"]]

NameComponent == [componentId |-> CLASS_ID.NAME, data |-> [value |-> "Entity"]]

NFTComponent == [componentId |-> CLASS_ID.NFT_SHAPE, data |-> [src |-> "ethereum://c/t"]]

GLTFComponent(assetId) == [componentId |-> CLASS_ID.GLTF_SHAPE, data |-> [assetId |-> assetId]]

\* component maps of an entity: at most one component per type code
EntityComponents ==
  { <<NFTComponent>>, <<NameComponent, TransformComponent>>,
    <<GLTFComponent("a1"), NFTComponent>>, <<NFTComponent, GLTFComponent("a2")>> }
  \cup { <<NameComponent, GLTFComponent(a)>> : a \in Range(AssetIds) }

Scenes ==
  { [i \in 1..Len(s) |-> [id |-> "e" \o ToString(i), components |-> s[i]]] :
      s \in SeqsUpTo(EntityComponents, MaxEntities) }

AssetEntry(a) == [key |-> a, value |-> Catalog[a]]

\* the floor of the previous manifest
OldGround == [assetId |-> "a3", componentId |-> "old"]

\* asset table and ground the manifest skeleton may carry (ground may be absent)
Baselines ==
  { [assets |-> <<>>, ground |-> Absent],
    [assets |-> <<AssetEntry("a1")>>, ground |-> OldGround],
    [assets |-> <<AssetEntry("a3")>>, ground |-> OldGround] }

Manifests ==
  { [scene |-> [id |-> "scene", entities |-> <<>>, components |-> <<>>,
                assets |-> b.assets, metrics |-> "metrics", limits |-> "limits",
                ground |-> b.ground]] :
      b \in Baselines }

RevIdle ==
  /\ rpc = "idle"
  /\ rscene = Absent
  /\ rei = 0
  /\ sceneState = <<>>

CodecIdle ==
  /\ cpc = "idle"
  /\ serialized = Absent
  /\ storable = Absent
  /\ deserialized = Absent

FwdIdle ==
  /\ pc = "idle"
  /\ scene = <<>>
  /\ builderManifest = Absent
  /\ entities = <<>>
  /\ builderComponents = <<>>
  /\ gltfNames = <<>>
  /\ nftCount = 0
  /\ ei = 0
  /\ ci = 0
  /\ entityName = None
  /\ builderComponentsIds = <<>>
  /\ uuidCount = 0
  /\ calls = <<>>
  /\ returned = Absent
  /\ nameRule = "entityId"
  /\ nameRules = <<>>

\* line 50
FallbackName(sc, i) == IF i <= Len(sc) THEN sc[i].id ELSE None

Init ==
  /\ pc = "loop"
  /\ scene \in Scenes
  /\ builderManifest \in Manifests
  /\ entities = <<>>
  /\ builderComponents = <<>>
  /\ gltfNames = <<>>
  /\ nftCount = 0
  /\ ei = 1
  /\ ci = 1
  /\ entityName = FallbackName(scene, 1)
  /\ builderComponentsIds = <<>>
  /\ uuidCount = 0
  /\ calls = <<>>
  /\ returned = Absent
  /\ nameRule = "entityId"
  /\ nameRules = <<>>
  /\ RevIdle
  /\ CodecIdle

(***************************************************************************)
(* Actions of toBuilderFromStateDefinitionFormat.                          *)
(***************************************************************************)
InEntity == pc = "loop" /\ ei <= Len(scene)

AtComponent == InEntity /\ ci <= Len(scene[ei].components)

Current == scene[ei].components[ci]

\* lines 62-71: payload of the component after the NFTShape rule
DataAfterNFTRule(componentType, data) ==
  IF componentType = "NFTShape" THEN SetField(data, "url", data.src) ELSE data

\* lines 83-88
BuilderComponentOf(newId, componentType, data) ==
  transformBuilderComponent([id |-> newId, type |-> componentType, data |-> data])

\* lines 54-89 for a component that is no GLTFShape
ProcessComponent ==
  /\ AtComponent
  /\ toHumanReadableType(Current.componentId) # "GLTFShape"
  /\ LET newId == uuid(uuidCount + 1)
         componentType == toHumanReadableType(Current.componentId)
         data == DataAfterNFTRule(componentType, Current.data)
     IN /\ uuidCount' = uuidCount + 1
        /\ builderComponentsIds' = Append(builderComponentsIds, newId)
        /\ scene' = [scene EXCEPT ![ei].components[ci].data = data]
        /\ entityName' = IF componentType = "NFTShape"
                           THEN NFTEntityName(nftCount) ELSE entityName
        /\ nftCount' = IF componentType = "NFTShape"
                         THEN NFTCountAfter(nftCount) ELSE nftCount
        /\ builderComponents' =
             StoreComponent(builderComponents, BuilderComponentOf(newId, componentType, data))
  /\ ci' = ci + 1
  /\ nameRule' = IF toHumanReadableType(Current.componentId) = "NFTShape"
                   THEN "NFTShape" ELSE nameRule
  /\ UNCHANGED <<pc, builderManifest, entities, gltfNames, ei, calls, returned, nameRules>>
  /\ UNCHANGED <<revVars, codecVars>>

\* lines 54-89 for a GLTFShape whose catalog lookup answers
ProcessGLTFComponent ==
  /\ AtComponent
  /\ toHumanReadableType(Current.componentId) = "GLTFShape"
  /\ \E assets \in getAssets(<<Current.data.assetId>>) :
       LET newId == uuid(uuidCount + 1)
       IN /\ uuidCount' = uuidCount + 1
          /\ builderComponentsIds' = Append(builderComponentsIds, newId)
          /\ calls' = Append(calls, [ids |-> <<Current.data.assetId>>, ok |-> TRUE])
          /\ entityName' = GLTFEntityName(gltfNames, entityName, Values(assets))
          /\ nameRule' = IF assets = <<>> THEN nameRule ELSE "GLTFShape"
          /\ builderComponents' =
               StoreComponent(builderComponents,
                              BuilderComponentOf(newId, "GLTFShape", Current.data))
  /\ ci' = ci + 1
  /\ UNCHANGED <<pc, scene, builderManifest, entities, gltfNames, nftCount, ei, returned,
                 nameRules>>
  /\ UNCHANGED <<revVars, codecVars>>

\* mutant of AfterCatalogFailure: the failure is swallowed and the loop goes on
AfterCatalogFailure_Swallowed == "loop"

\* what a rejected getAssets promise does to the translation: nothing catches it
AfterCatalogFailure == "failed"

\* lines 56-76 for a GLTFShape whose catalog lookup fails
ProcessGLTFLookupFails ==
  /\ AtComponent
  /\ toHumanReadableType(Current.componentId) = "GLTFShape"
  /\ uuidCount' = uuidCount + 1
  /\ builderComponentsIds' = Append(builderComponentsIds, uuid(uuidCount + 1))
  /\ calls' = Append(calls, [ids |-> <<Current.data.assetId>>, ok |-> FALSE])
  /\ pc' = AfterCatalogFailure
  /\ ci' = IF AfterCatalogFailure = "failed" THEN ci ELSE ci + 1
  /\ UNCHANGED <<scene, builderManifest, entities, builderComponents, gltfNames,
                 nftCount, ei, entityName, returned, nameRule, nameRules>>
  /\ UNCHANGED <<revVars, codecVars>>

\* lines 91-108: the entity's name is final
FinishEntity ==
  /\ InEntity
  /\ ci > Len(scene[ei].components)
  /\ scene' = [scene EXCEPT ![ei].components = SetBuilderValue(@, entityName)]
  /\ builderComponents' =
       SetBuilderValueInTable(builderComponents, builderComponentsIds, entityName)
  /\ gltfNames' = RecordName(gltfNames, entityName)
  /\ entities' = ObjSet(entities, scene[ei].id,
                        NewBuilderEntity(scene[ei].id, builderComponentsIds, entityName))
  /\ ei' = ei + 1
  /\ ci' = 1
  /\ entityName' = FallbackName(scene, ei + 1)
  /\ builderComponentsIds' = <<>>
  /\ nameRules' = Append(nameRules, nameRule)
  /\ nameRule' = "entityId"
  /\ UNCHANGED <<pc, builderManifest, nftCount, uuidCount, calls, returned>>
  /\ UNCHANGED <<revVars, codecVars>>

AfterLoop == pc = "loop" /\ ei > Len(scene)

\* lines 141-160: the asset table after the merge and the removal of unused assets
ReconciledAssets(assets, newAssets, comps) ==
  RemoveUnused(MergeAssets(assets, newAssets), comps)

\* lines 110-186 when the reconciliation lookup answers
Reconcile ==
  /\ AfterLoop
  /\ LET built == BuildScene(builderManifest, entities, builderComponents)
         idArray == IdArray(built.scene.components, built.scene.assets)
     IN \E newAssets \in getAssets(idArray) :
          LET assets == ReconciledAssets(built.scene.assets, newAssets,
                                         built.scene.components)
              reconciled == [built EXCEPT !.scene.assets = assets]
          IN /\ calls' = Append(calls, [ids |-> idArray, ok |-> TRUE])
             /\ IF GroundThrows(assets, built.scene.ground)
                  THEN /\ pc' = "threw"
                       /\ builderManifest' = reconciled
                       /\ returned' = Absent
                       /\ UNCHANGED entities
                  ELSE LET g == FindGround(assets, built.scene.components,
                                           built.scene.ground, None)
                           ents == DisableGizmos(built.scene.entities, g.groundComponentId)
                           final == [reconciled EXCEPT !.scene.ground = g.ground,
                                                       !.scene.entities = ents]
                       IN /\ pc' = "done"
                          /\ builderManifest' = final
                          /\ returned' = final
                          /\ entities' = ents
  /\ UNCHANGED <<scene, builderComponents, gltfNames, nftCount, ei, ci, entityName,
                 builderComponentsIds, uuidCount, nameRule, nameRules>>
  /\ UNCHANGED <<revVars, codecVars>>

\* lines 110-140 when the reconciliation lookup fails
ReconcileLookupFails ==
  /\ AfterLoop
  /\ LET built == BuildScene(builderManifest, entities, builderComponents)
     IN /\ calls' = Append(calls, [ids |-> IdArray(built.scene.components,
                                                   built.scene.assets),
                                   ok |-> FALSE])
        /\ builderManifest' = built
  /\ pc' = AfterCatalogFailure
  /\ UNCHANGED <<scene, entities, builderComponents, gltfNames, nftCount, ei, ci,
                 entityName, builderComponentsIds, uuidCount, returned, nameRule,
                 nameRules>>
  /\ UNCHANGED <<revVars, codecVars>>

Next ==
  \/ ProcessComponent
  \/ ProcessGLTFComponent
  \/ ProcessGLTFLookupFails
  \/ FinishEntity
  \/ Reconcile
  \/ ReconcileLookupFails

Spec == Init /\ [][Next]_vars

(***************************************************************************)
(* fromBuildertoStateDefinitionFormat.                                     *)
(***************************************************************************)
MaxBuilderEntities == 2

\* String.prototype.indexOf for a one-character pattern: 0-based, -1 when absent
indexOf(s, ch) ==
  LET hits == {i \in 1..Len(s) : SubSeq(s, i, i) = ch}
  IN IF hits = {} THEN 0 - 1
     ELSE (CHOOSE i \in hits : \A j \in hits : i <= j) - 1

\* String.prototype.slice(start): a negative start counts from the end
slice(s, start) ==
  LET from == IF start < 0
                THEN (IF Len(s) + start < 0 THEN 0 ELSE Len(s) + start)
                ELSE (IF start > Len(s) THEN Len(s) ELSE start)
  IN SubSeq(s, from + 1, Len(s))

RECURSIVE RemoveAllFrom(_, _, _)
RemoveAllFrom(s, pattern, i) ==
  IF i > Len(s) THEN ""
  ELSE IF i + Len(pattern) - 1 <= Len(s) /\ SubSeq(s, i, i + Len(pattern) - 1) = pattern
    THEN RemoveAllFrom(s, pattern, i + Len(pattern))
    ELSE SubSeq(s, i, i) \o RemoveAllFrom(s, pattern, i + 1)

\* String.prototype.replaceAll(pattern, ''): an empty pattern changes nothing
replaceAll(s, pattern) ==
  IF pattern = "" THEN s ELSE RemoveAllFrom(s, pattern, 1)

\* lines 206-209
NFTAssetId(url) ==
  LET newAssetId == replaceAll(url, "ethereum://")
      index == indexOf(newAssetId, "/")
      partToRemove == slice(newAssetId, index)
  IN replaceAll(newAssetId, partToRemove)

\* lines 211-216
DefaultColor == "rgba(0.6404918, 0.611472, 0.8584906, 1)"

\* line 205
NeedsNFTShim(builderComponent) ==
  "src" \notin DOMAIN builderComponent.data /\ builderComponent.type = "NFTShape"

\* line 206 on a payload without url: replaceAll of undefined
NFTShimThrows(builderComponent) ==
  NeedsNFTShim(builderComponent) /\ "url" \notin DOMAIN builderComponent.data

\* lines 217-220
NFTShimData(data) ==
  SetField(SetField(SetField(SetField(data, "src", data.url),
                             "assetId", NFTAssetId(data.url)),
                    "color", DefaultColor),
           "style", 0)

\* line 200
componentMapHas(table, componentId) == componentId \in Keys(table)

\* lines 223-226
StateDefinitionComponentOf(builderComponent, data) ==
  transformStateDefinitionComponent(
    [componentId |-> fromHumanReadableType(builderComponent.type), data |-> data])

\* mutant of ConvertComponents: the loop stops at an id the table lacks
RECURSIVE ConvertComponents_StopsAtDangling(_, _, _, _)
ConvertComponents_StopsAtDangling(ids, i, table, components) ==
  IF i > Len(ids) \/ ~componentMapHas(table, ids[i])
    THEN [table |-> table, components |-> components, threw |-> FALSE]
    ELSE LET at == Get(table, ids[i])
             builderComponent == table[at].value
         IN IF NFTShimThrows(builderComponent)
              THEN [table |-> table, components |-> components, threw |-> TRUE]
              ELSE LET componentData == IF NeedsNFTShim(builderComponent)
                                          THEN NFTShimData(builderComponent.data)
                                          ELSE builderComponent.data
                   IN ConvertComponents_StopsAtDangling(
                        ids, i + 1,
                        [table EXCEPT ![at].value.data = componentData],
                        Append(components,
                               StateDefinitionComponentOf(builderComponent, componentData)))

\* lines 199-229: [table, components, threw] after the listed ids from position i on
RECURSIVE ConvertComponents(_, _, _, _)
ConvertComponents(ids, i, table, components) ==
  IF i > Len(ids) THEN [table |-> table, components |-> components, threw |-> FALSE]
  ELSE IF ~componentMapHas(table, ids[i])
    THEN ConvertComponents(ids, i + 1, table, components)
  ELSE LET at == Get(table, ids[i])
           builderComponent == table[at].value
       IN IF NFTShimThrows(builderComponent)
            THEN [table |-> table, components |-> components, threw |-> TRUE]
            ELSE LET componentData == IF NeedsNFTShim(builderComponent)
                                        THEN NFTShimData(builderComponent.data)
                                        ELSE builderComponent.data
                 IN ConvertComponents(
                      ids, i + 1,
                      [table EXCEPT ![at].value.data = componentData],
                      Append(components,
                             StateDefinitionComponentOf(builderComponent, componentData)))

\* lines 249-263
CreateStatelessNameComponent(name, builderName) ==
  transformStateDefinitionComponent(
    [componentId |-> CLASS_ID.NAME,
     data |-> [value |-> name, builderValue |-> builderName]])

\* mutant of WithName: the entity's name also replaces the canonical value
WithName_OverwritesValue(components, name) ==
  LET found == {i \in 1..Len(components) : components[i].componentId = CLASS_ID.NAME}
  IN IF found # {}
       THEN LET first == CHOOSE i \in found : \A j \in found : i <= j
            IN [components EXCEPT ![first].data =
                  SetField(SetField(@, "value", name), "builderValue", name)]
       ELSE Append(components, CreateStatelessNameComponent(name, name))

\* lines 232-242
WithName(components, name) ==
  LET found == {i \in 1..Len(components) : components[i].componentId = CLASS_ID.NAME}
  IN IF found # {}
       THEN LET first == CHOOSE i \in found : \A j \in found : i <= j
            IN [components EXCEPT ![first].data =
                  SetField(SetField(@, "value", @.value), "builderValue", name)]
       ELSE Append(components, CreateStatelessNameComponent(name, name))

\* lines 199-200: the listed ids the component table holds, in list order
PresentIds(ids, table) == SelectSeq(ids, LAMBDA id : componentMapHas(table, id))

\* lines 237-238 as seen through the manifest: transformStateDefinitionComponent
\* hands a payload that is no Transform on as the same object, so the manifest's
\* Name payload carries the builderValue too
NameInTable(table, ids, name) ==
  LET present == PresentIds(ids, table)
      found == {i \in 1..Len(present) : table[Get(table, present[i])].value.type = "Name"}
  IN IF found = {} THEN table
     ELSE LET first == CHOOSE i \in found : \A j \in found : i <= j
          IN [table EXCEPT ![Get(table, present[first])].value.data =
                SetField(@, "builderValue", name)]

\* sceneState.addEntity(id, components)
addEntity(state, id, components) ==
  Append(state, [id |-> id, components |-> components])

\* the component table of the manifests given to the reverse translation
BuilderComponents ==
  << [id |-> "g1", type |-> "GLTFShape", data |-> [assetId |-> "a1"]],
     [id |-> "t1", type |-> "Transform", data |-> [form |-> "builder"]],
     [id |-> "n1", type |-> "NFTShape", data |-> [url |-> "ethereum://c/t"]],
     [id |-> "n2", type |-> "NFTShape", data |-> [src |-> "ethereum://c/t", url |-> "ethereum://c/t"]],
     [id |-> "n3", type |-> "NFTShape", data |-> [url |-> "ct"]],
     [id |-> "n4", type |-> "NFTShape", data |-> [assetId |-> "c"]],
     [id |-> "m1", type |-> "Name", data |-> [value |-> "Canon1"]],
     [id |-> "m2", type |-> "Name", data |-> [value |-> "Canon2"]],
     [id |-> "m3", type |-> "Name", data |-> [value |-> "Canon3"]] >>

BuilderComponentTable ==
  [i \in 1..Len(BuilderComponents) |->
     [key |-> BuilderComponents[i].id, value |-> BuilderComponents[i]]]

\* component id lists of the i-th manifest entity; "x9" is in no component table,
\* and a Name component belongs to one entity
ComponentIdLists(i) ==
  LET name == "m" \o ToString(i)
  IN { <<>>, <<"x9">>, <<"t1", "x9", "g1">>, <<name>>, <<"g1", name, "x9">>,
       <<"n1">>, <<"n2", "t1">>, <<"x9", "n3">>, <<"n4">> }

EntityNames == {"Spawn1", "Door"}

BuilderEntityTables ==
  UNION { { [i \in 1..n |->
               LET id == "e" \o ToString(i)
               IN [key |-> id,
                   value |-> [id |-> id, name |-> names[i], components |-> lists[i],
                              disableGizmos |-> FALSE]]] :
              names \in [1..n -> EntityNames],
              lists \in {l \in [1..n -> UNION {ComponentIdLists(i) : i \in 1..n}] :
                           \A i \in 1..n : l[i] \in ComponentIdLists(i)} } :
          n \in 0..MaxBuilderEntities }

InitRev ==
  /\ rpc = "loop"
  /\ rscene \in { [id |-> "scene", entities |-> e, components |-> BuilderComponentTable,
                   assets |-> <<>>, metrics |-> "metrics", limits |-> "limits",
                   ground |-> Absent] : e \in BuilderEntityTables }
  /\ rei = 1
  /\ sceneState = <<>>
  /\ FwdIdle
  /\ CodecIdle

AtBuilderEntity == rpc = "loop" /\ rei <= Len(rscene.entities)

Converted == ConvertComponents(rscene.entities[rei].value.components, 1,
                               rscene.components, <<>>)

\* lines 197-245 for one entity of scene.entities
TranslateEntity ==
  /\ AtBuilderEntity
  /\ ~Converted.threw
  /\ LET entity == rscene.entities[rei].value
     IN sceneState' = addEntity(sceneState, entity.id,
                                WithName(Converted.components, entity.name))
  /\ rscene' = [rscene EXCEPT !.components =
                  NameInTable(Converted.table, rscene.entities[rei].value.components,
                              rscene.entities[rei].value.name)]
  /\ rei' = rei + 1
  /\ UNCHANGED rpc
  /\ UNCHANGED <<fwdVars, codecVars>>

\* lines 197-206 for an entity with an NFTShape payload that has no src and no url
TranslateEntityThrows ==
  /\ AtBuilderEntity
  /\ Converted.threw
  /\ rscene' = [rscene EXCEPT !.components = Converted.table]
  /\ rpc' = "threw"
  /\ UNCHANGED <<rei, sceneState>>
  /\ UNCHANGED <<fwdVars, codecVars>>

\* line 246
ReturnSceneState ==
  /\ rpc = "loop"
  /\ rei > Len(rscene.entities)
  /\ rpc' = "done"
  /\ UNCHANGED <<rscene, rei, sceneState>>
  /\ UNCHANGED <<fwdVars, codecVars>>

NextRev ==
  \/ TranslateEntity
  \/ TranslateEntityThrows
  \/ ReturnSceneState

SpecRev == InitRev /\ [][NextRev]_vars

(***************************************************************************)
(* The storable snapshot codec.                                            *)
(***************************************************************************)
MaxWireEntities == 2

MaxWireComponents == 2

CURRENT_SCHEMA_VERSION == 1

\* lines 265-274
fromSerializedStateToStorableFormat(state) ==
  [schemaVersion |-> CURRENT_SCHEMA_VERSION,
   entities |->
     [i \in 1..Len(state.entities) |->
        [id |-> state.entities[i].id,
         components |->
           [j \in 1..Len(state.entities[i].components) |->
              [type |-> toHumanReadableType(state.entities[i].components[j].type),
               value |-> state.entities[i].components[j].value]]]]]

\* mutant of fromStorableFormatToSerializedState: Name components are left out
fromStorableFormatToSerializedState_DropsName(state) ==
  [entities |->
     [i \in 1..Len(state.entities) |->
        [id |-> state.entities[i].id,
         components |->
           LET kept == SelectSeq(state.entities[i].components,
                                 LAMBDA c : c.type # "Name")
           IN [j \in 1..Len(kept) |->
                 [type |-> fromHumanReadableType(kept[j].type),
                  value |-> kept[j].value]]]]]

\* lines 276-282
fromStorableFormatToSerializedState(state) ==
  [entities |->
     [i \in 1..Len(state.entities) |->
        [id |-> state.entities[i].id,
         components |->
           [j \in 1..Len(state.entities[i].components) |->
              [type |-> fromHumanReadableType(state.entities[i].components[j].type),
               value |-> state.entities[i].components[j].value]]]]]

WireComponents ==
  { [type |-> CLASS_ID.TRANSFORM, value |-> "v1"],
    [type |-> CLASS_ID.NAME, value |-> "v2"],
    [type |-> CLASS_ID.GLTF_SHAPE, value |-> "v1"] }

WireEntityLists ==
  { [i \in 1..Len(s) |-> [id |-> "e" \o ToString(i), components |-> s[i]]] :
      s \in SeqsUpTo(SeqsUpTo(WireComponents, MaxWireComponents), MaxWireEntities) }

InitCodec ==
  /\ cpc = "start"
  /\ serialized \in {[entities |-> E] : E \in WireEntityLists}
  /\ storable = Absent
  /\ deserialized = Absent
  /\ FwdIdle
  /\ RevIdle

Encode ==
  /\ cpc = "start"
  /\ storable' = fromSerializedStateToStorableFormat(serialized)
  /\ cpc' = "encoded"
  /\ UNCHANGED <<serialized, deserialized>>
  /\ UNCHANGED <<fwdVars, revVars>>

Decode ==
  /\ cpc = "encoded"
  /\ deserialized' = fromStorableFormatToSerializedState(storable)
  /\ cpc' = "decoded"
  /\ UNCHANGED <<serialized, storable>>
  /\ UNCHANGED <<fwdVars, revVars>>

NextCodec ==
  \/ Encode
  \/ Decode

SpecCodec == InitCodec /\ [][NextCodec]_vars

(***************************************************************************)
(* Properties of toBuilderFromStateDefinitionFormat.                       *)
(***************************************************************************)
TypesOf(entity) ==
  [j \in 1..Len(entity.components) |-> toHumanReadableType(entity.components[j].componentId)]

HoldsOnlyNFTShape(entity) ==
  /\ Cardinality({j \in 1..Len(entity.components) : TypesOf(entity)[j] = "NFTShape"}) = 1
  /\ "GLTFShape" \notin Range(TypesOf(entity))

\* C1: in a scene whose entities each hold exactly one NFTShape component and no
\* GLTFShape component, the k-th entity in processing order is named "nft" when
\* k = 1 and "nft" followed by k when k >= 2 ("nft", "nft2", "nft3").
C1_NFTNaming ==
  (\A i \in 1..Len(scene) : HoldsOnlyNFTShape(scene[i]))
    => \A k \in 1..Len(entities) :
         entities[k].value.name = IF k = 1 THEN "nft" ELSE "nft" \o ToString(k)

GLTFAssetIds(comps) ==
  {comps[i].value.data.assetId : i \in {j \in 1..Len(comps) : IsGLTF(comps[j].value)}}

\* C2: after a successful forward translation the keys of the manifest's asset
\* table are exactly the data.assetId values of its GLTFShape components, for
\* every baseline asset table and every answer of the catalog (entry or omission).
C2_AssetSetInvariant ==
  pc = "done"
    => Keys(returned.scene.assets) = GLTFAssetIds(returned.scene.components)

ReferencingComponents(m, assetId) ==
  {i \in 1..Len(m.components) : HasAssetId(m.components[i].value, assetId)}

GroundAssets(m) ==
  {i \in 1..Len(m.assets) : m.assets[i].value.category = "ground"}

\* the owner of the only component referencing the asset has disableGizmos = TRUE,
\* every other entity has disableGizmos = FALSE
OwnerOnlyHasGizmosDisabled(m, assetId) ==
  LET refs == ReferencingComponents(m, assetId)
  IN Cardinality(refs) = 1
       => LET componentId == m.components[CHOOSE i \in refs : TRUE].key
          IN \A e \in 1..Len(m.entities) :
               m.entities[e].value.disableGizmos
                 = (componentId \in Range(m.entities[e].value.components))

\* C4 as stated: after the forward translation, for an asset of category "ground"
\* in the reconciled table that exactly one component references, the entity
\* listing that component has disableGizmos = TRUE and every other entity FALSE.
C4_GroundPropagation ==
  pc = "done"
    => \A a \in GroundAssets(returned.scene) :
         OwnerOnlyHasGizmosDisabled(returned.scene, returned.scene.assets[a].key)

\* C4 amended: the same, for the ground asset that comes last in the iteration
\* order of the reconciled asset table (the only one when there is one).
C4_LastGroundPropagation ==
  pc = "done"
    => \A a \in GroundAssets(returned.scene) :
         (\A b \in GroundAssets(returned.scene) : b <= a)
           => OwnerOnlyHasGizmosDisabled(returned.scene, returned.scene.assets[a].key)

C4_Witness ==
  /\ pc = "done"
  /\ Len(returned.scene.entities) = 3
  /\ Cardinality(GroundAssets(returned.scene)) = 1
  /\ \E a \in GroundAssets(returned.scene) :
       Cardinality(ReferencingComponents(returned.scene, returned.scene.assets[a].key)) = 1
  /\ returned.scene.entities[2].value.disableGizmos
  /\ ~returned.scene.entities[1].value.disableGizmos
  /\ ~returned.scene.entities[3].value.disableGizmos

\* C5: an entity named from a GLTFShape asset gets a name different from the name
\* of every entity processed before it, whatever rule named those; two entities
\* whose assets resolve to "Tree" are named "tree" and "tree2".
C5_GLTFNameUnique ==
  /\ \A k \in 1..Len(entities) :
       nameRules[k] = "GLTFShape"
         => \A j \in 1..(k - 1) : entities[j].value.name # entities[k].value.name
  /\ (InEntity /\ nameRule = "GLTFShape")
       => \A j \in 1..Len(entities) : entities[j].value.name # entityName

C5_Witness ==
  /\ Len(entities) = 3
  /\ nameRules = <<"entityId", "GLTFShape", "GLTFShape">>
  /\ entities[1].value.name = "e1"
  /\ entities[2].value.name = "tree"
  /\ entities[3].value.name = "tree2"

AllListedIds(m) ==
  UNION {Range(m.entities[i].value.components) : i \in 1..Len(m.entities)}

RECURSIVE SumLens(_, _)
SumLens(ents, i) ==
  IF i > Len(ents) THEN 0 ELSE Len(ents[i].value.components) + SumLens(ents, i + 1)

\* C8: after the forward translation every component id an entity lists is a key
\* of the manifest's components map, and each entity lists one freshly minted id
\* per internal component, in internal component order.
C8_ComponentIdsExist ==
  pc = "done"
    => LET m == returned.scene
       IN /\ AllListedIds(m) \subseteq Keys(m.components)
          /\ Cardinality(AllListedIds(m)) = SumLens(m.entities, 1)
          /\ Len(m.entities) = Len(scene)
          /\ \A i \in 1..Len(m.entities) :
               LET ids == m.entities[i].value.components
               IN /\ Len(ids) = Len(scene[i].components)
                  /\ \A j \in 1..Len(ids) :
                       /\ ids[j] \in Keys(m.components)
                       /\ m.components[Get(m.components, ids[j])].value.type
                            = TypesOf(scene[i])[j]

C8_Witness ==
  /\ pc = "done"
  /\ Len(returned.scene.entities) = 3
  /\ \A i \in 1..3 : Len(returned.scene.entities[i].value.components) = 2
  /\ Len(returned.scene.components) = 6

\* C9: a failed Asset Catalog call is the last catalog call of the translation,
\* the translation has failed, and the caller received no manifest.
C9_CatalogFailureIsTerminal ==
  \A i \in 1..Len(calls) :
    ~calls[i].ok => /\ i = Len(calls)
                    /\ pc = "failed"
                    /\ returned = Absent

C9_Witness ==
  /\ pc = "failed"
  /\ Len(calls) >= 2
  /\ ~calls[Len(calls)].ok
  /\ ei > Len(scene)
  /\ returned = Absent

\* C10: after a successful forward translation a ground with assetId and
\* componentId points at a key of the asset table and a key of the component
\* table, for any baseline ground.
C10_GroundPointerResolves ==
  (pc = "done" /\ returned.scene.ground # Absent)
    => /\ returned.scene.ground.assetId \in Keys(returned.scene.assets)
       /\ returned.scene.ground.componentId \in Keys(returned.scene.components)

(***************************************************************************)
(* Properties of fromBuildertoStateDefinitionFormat.                       *)
(***************************************************************************)
ManifestEntity(i) == rscene.entities[i].value

\* the builder components an entity lists that the component table holds
ListedComponents(i) ==
  LET present == PresentIds(ManifestEntity(i).components, rscene.components)
  IN [j \in 1..Len(present) |-> rscene.components[Get(rscene.components, present[j])].value]

NamesIn(components) ==
  {j \in 1..Len(components) : components[j].componentId = CLASS_ID.NAME}

ListedNames(i) ==
  {j \in 1..Len(ListedComponents(i)) : ListedComponents(i)[j].type = "Name"}

HasDangling(i) ==
  \E id \in Range(ManifestEntity(i).components) : id \notin Keys(rscene.components)

C7_LenientDangling ==
  /\ rpc = "threw"
       => \E j \in 1..Len(ListedComponents(rei)) : NFTShimThrows(ListedComponents(rei)[j])
  /\ rpc = "done"
       => /\ Len(sceneState) = Len(rscene.entities)
          /\ \A i \in 1..Len(sceneState) :
               LET components == sceneState[i].components
                   listed == ListedComponents(i)
               IN /\ sceneState[i].id = ManifestEntity(i).id
                  /\ Len(components) \in {Len(listed), Len(listed) + 1}
                  /\ \A j \in 1..Len(listed) :
                       /\ components[j].componentId = fromHumanReadableType(listed[j].type)
                       /\ listed[j].type = "GLTFShape"
                            => components[j].data.assetId = listed[j].data.assetId
                  /\ \A j \in (Len(listed) + 1)..Len(components) :
                       components[j].componentId = CLASS_ID.NAME

C7_Witness ==
  /\ rpc = "done"
  /\ \E i \in 1..Len(sceneState) :
       /\ ManifestEntity(i).components = <<"t1", "x9", "g1">>
       /\ HasDangling(i)
       /\ Len(sceneState[i].components) = 3
       /\ sceneState[i].components[1].componentId = CLASS_ID.TRANSFORM
       /\ sceneState[i].components[2].componentId = CLASS_ID.GLTF_SHAPE

(***************************************************************************)
(* Property of the storable snapshot codec.                                *)
(***************************************************************************)
\* C3: decoding the encoding of an internal wire-shape entity list gives the
\* list back: same entities in the same order, same components in the same
\* order with the same type codes and values.
C3_RoundTrip ==
  cpc = "decoded" => deserialized.entities = serialized.entities

C3_Witness ==
  /\ cpc = "decoded"
  /\ storable.schemaVersion = 1
  /\ Len(serialized.entities) = 2
  /\ Len(serialized.entities[2].components) = 2
  /\ serialized.entities[2].components[1].type = CLASS_ID.NAME
  /\ storable.entities[2].components[1].type = "Name"
  /\ serialized.entities[2].components[2].type = CLASS_ID.GLTF_SHAPE
  /\ deserialized.entities[2].components[2].type = CLASS_ID.GLTF_SHAPE

====
